---- MODULE Spec2Model ----
(***************************************************************************)
(* Monitors of op-monitorism: the global-events monitor (signature         *)
(* canonicalization, rule lookup, address scoping, one tick of Run), and   *)
(* the liveness-expiration monitor's Run.                                  *)
(*                                                                         *)
(* Strings that the code parses are sequences of one-character strings;    *)
(* the empty Go string "" is the empty sequence.                           *)
(***************************************************************************)
EXTENDS Integers, Sequences, FiniteSets, TLC

\* ---------------------------------------------------------------- bounds
MaxTicks == 2        \* ticks of a monitor in one behaviour
MaxLogs == 2         \* logs FilterLogs returns for one block
MaxRules == 2        \* rules of the yaml rule set
MaxSigLen == 6       \* characters of a signature handed to formatSignature
MaxAddresses == 3    \* addresses of the config handed to isAddressIntoConfig
MaxOwners == 2       \* owners GetOwners returns

\* ------------------------------------------------------------ characters
WordChars == {"a", "b"}          \* \w
SpaceChars == {" "}              \* \s, and unicode.IsSpace of strings.Fields
Chars == WordChars \cup SpaceChars \cup {",", "(", ")"}

Nil == "nil"
RpcError == "error"

VARIABLES
    \* global-events monitor
    pc,                  \* where checkEvents stands
    ticks,               \* number of Run calls so far
    ctxDone,             \* the ctx handed to Run has been cancelled
    globalconfig,        \* m.globalconfig.Configuration, the yaml rules
    err,                 \* local err of checkEvents
    latestBlockNumber,   \* local header.Number
    logs,                \* local logs
    idx,                 \* position of the range loop over logs
    lookups,             \* calls of SearchIfATopicIsInsideAnAlert in this tick
    detected,            \* "Event Detected" records printed in this tick
    eventEmitted,        \* GaugeVec: label tuple -> value
    unexpectedRpcErrors, \* CounterVec: <<section, name>> -> value
    \* formatSignature
    signature, formatted, reformatted, fpc,
    \* isAddressIntoConfig
    address, config, accepted, apc,
    \* liveness-expiration monitor
    le_pc, le_ticks, le_err, le_errored, le_gaugesSet,
    latestL1Height, listOwners, ownerIdx,
    le_unexpectedRpcErrors, lastLiveOfAOwner, intervalLiveness, highestBlockNumber

gevars == <<pc, ticks, ctxDone, globalconfig, err, latestBlockNumber, logs, idx,
            lookups, detected, eventEmitted, unexpectedRpcErrors>>
fvars == <<signature, formatted, reformatted, fpc>>
avars == <<address, config, accepted, apc>>
levars == <<le_pc, le_ticks, le_err, le_errored, le_gaugesSet, latestL1Height,
            listOwners, ownerIdx, le_unexpectedRpcErrors, lastLiveOfAOwner,
            intervalLiveness, highestBlockNumber>>
vars == <<gevars, fvars, avars, levars>>

\* ------------------------------------------------------------- sequences
RECURSIVE SeqsUpTo(_, _)
SeqsUpTo(S, n) ==
    IF n = 0 THEN {<< >>}
    ELSE LET shorter == SeqsUpTo(S, n - 1)
         IN shorter \cup {Append(s, x) : s \in {t \in shorter : Len(t) = n - 1}, x \in S}

\* ------------------------------------------------------- formatSignature
\* first index j >= i with j > Len(s) or s[j] \notin S
RECURSIVE SkipWhile(_, _, _)
SkipWhile(s, i, S) ==
    IF i > Len(s) \/ s[i] \notin S THEN i ELSE SkipWhile(s, i + 1, S)

\* the regexp (\w+)\s*\(([^)]*)\) anchored at position i: <<name, params>> or << >>
MatchAt(s, i) ==
    IF i > Len(s) \/ s[i] \notin WordChars THEN << >>
    ELSE LET j == SkipWhile(s, i, WordChars)
             k == SkipWhile(s, j, SpaceChars)
         IN IF k > Len(s) \/ s[k] # "(" THEN << >>
            ELSE LET m == SkipWhile(s, k + 1, Chars \ {")"})
                 IN IF m > Len(s) THEN << >>
                    ELSE << SubSeq(s, i, j - 1), SubSeq(s, k + 1, m - 1) >>

\* r.FindStringSubmatch: the leftmost match, << >> when there is none
RECURSIVE FindFrom(_, _)
FindFrom(s, i) ==
    IF i > Len(s) THEN << >>
    ELSE IF MatchAt(s, i) # << >> THEN MatchAt(s, i)
    ELSE FindFrom(s, i + 1)

FindStringSubmatch(s) == FindFrom(s, 1)

\* strings.Split(params, ","): always at least one field
RECURSIVE Split(_)
Split(p) ==
    LET c == SkipWhile(p, 1, Chars \ {","})
    IN IF c > Len(p) THEN << p >>
       ELSE << SubSeq(p, 1, c - 1) >> \o Split(SubSeq(p, c + 1, Len(p)))

\* strings.Fields(param): the maximal runs of non-space characters
RECURSIVE Fields(_)
Fields(p) ==
    LET a == SkipWhile(p, 1, SpaceChars)
    IN IF a > Len(p) THEN << >>
       ELSE LET b == SkipWhile(p, a, Chars \ SpaceChars)
            IN << SubSeq(p, a, b - 1) >> \o Fields(SubSeq(p, b, Len(p)))

RECURSIVE JoinWithSpace(_)
JoinWithSpace(elems) ==
    IF Len(elems) = 0 THEN << >>
    ELSE IF Len(elems) = 1 THEN elems[1]
    ELSE elems[1] \o << " " >> \o JoinWithSpace(Tail(elems))

\* strings.Join(elems, ",")
RECURSIVE Join(_)
Join(elems) ==
    IF Len(elems) = 0 THEN << >>
    ELSE IF Len(elems) = 1 THEN elems[1]
    ELSE elems[1] \o << "," >> \o Join(Tail(elems))

RECURSIVE CleanParamsKeepBlank(_)
CleanParamsKeepBlank(split) ==
    IF Len(split) = 0 THEN << >>
    ELSE LET parts == Fields(split[1])
         IN << IF Len(parts) > 0 THEN parts[1] ELSE << >> >> \o CleanParamsKeepBlank(Tail(split))

\* the loop that keeps the first field of every param that has one
RECURSIVE CleanParams(_)
CleanParams(split) ==
    IF Len(split) = 0 THEN << >>
    ELSE LET parts == Fields(split[1])
         IN (IF Len(parts) > 0 THEN << parts[1] >> ELSE << >>) \o CleanParams(Tail(split))

formatSignature(sig) ==
    LET matches == FindStringSubmatch(sig)
    IN IF matches = << >> THEN << >>
       ELSE matches[1] \o << "(" >> \o Join(CleanParams(Split(matches[2]))) \o << ")" >>

\* ---------------------------------------------------------- FormatAndHash
\* crypto.Keccak256 + common.BytesToHash: an injective tag of the preimage
Keccak256(bytes) == << "keccak256", bytes >>

Panic == << "panic", "Invalid signature" >>

FormatAndHash(sig) ==
    LET formattedSignature == formatSignature(sig)
    IN IF formattedSignature = << >> THEN Panic ELSE Keccak256(formattedSignature)

\* ------------------------------------------------------------ rule set
\* common.Address values, and Address.String() of each
Addresses == {1, 2}
AddressString(a) == IF a = 1 THEN "0x0000000000000000000000000000000000000001"
                    ELSE IF a = 2 THEN "0x0000000000000000000000000000000000000002"
                    ELSE "0x0000000000000000000000000000000000000003"

\* signatures as written in the yaml rules
SigANamed == << "a", "(", "a", " ", "b", ")" >>     \* canonical form a(a)
SigA == << "a", "(", "a", ")" >>                    \* canonical form a(a)
SigB == << "b", "(", ")" >>                         \* canonical form b()

Event(sig) == [Signature |-> sig]

\* Configuration{}: the zero value
EmptyConfiguration == [Name |-> "", Priority |-> "", Addresses |-> << >>, Events |-> << >>]

RuleNames == << "R1", "R2", "R3" >>
RulePriorities == << "P0", "P1", "P2" >>
\* what a rule of the file can say: any address or one address for the
\* single event a(a), and a rule of two events whose second one is a(a)
RuleBodies == {[Addresses |-> << >>, Events |-> << Event(SigA) >>],
               [Addresses |-> << 1 >>, Events |-> << Event(SigA) >>],
               [Addresses |-> << >>, Events |-> << Event(SigB), Event(SigANamed) >>]}

\* rule number i of the file, with body b
Rule(i, b) == [Name |-> RuleNames[i], Priority |-> RulePriorities[i],
               Addresses |-> b.Addresses, Events |-> b.Events]

\* the rule sets a yaml file of up to n rules can hold
RuleSets(n) ==
    {[i \in 1..Len(bs) |-> Rule(i, bs[i])] : bs \in SeqsUpTo(RuleBodies, n)}

\* index of the first event of config whose hash is topic, 0 when none
RECURSIVE EventIndex(_, _, _)
EventIndex(events, topic, i) ==
    IF i > Len(events) THEN 0
    ELSE IF topic = FormatAndHash(events[i].Signature) THEN i
    ELSE EventIndex(events, topic, i + 1)

\* GlobalConfiguration.SearchIfATopicIsInsideAnAlert: the first rule, in file
\* order, one of whose events hashes to topic; Configuration{} when none
RECURSIVE SearchFrom(_, _, _)
SearchFrom(G, topic, i) ==
    IF i > Len(G) THEN EmptyConfiguration
    ELSE IF EventIndex(G[i].Events, topic, 1) # 0 THEN G[i]
    ELSE SearchFrom(G, topic, i + 1)

SearchIfATopicIsInsideAnAlert(G, topic) == SearchFrom(G, topic, 1)

\* --------------------------------------------------- isAddressIntoConfig
AddrLoopFirstOnly(addrs, a, i) ==
    IF i > Len(addrs) THEN FALSE ELSE addrs[i] = a

\* the range loop over config.Addresses
RECURSIVE AddrLoop(_, _, _)
AddrLoop(addrs, a, i) ==
    IF i > Len(addrs) THEN FALSE
    ELSE IF addrs[i] = a THEN TRUE
    ELSE AddrLoop(addrs, a, i + 1)

isAddressIntoConfig(a, cfg) ==
    IF Len(cfg.Addresses) = 0 THEN TRUE ELSE AddrLoop(cfg.Addresses, a, 1)

\* ------------------------------------------------------------- metrics
\* value of a sample of a vector, 0 for a sample that was never touched
Value(vec, labels) == IF labels \in DOMAIN vec THEN vec[labels] ELSE 0

GaugeAdd(vec, labels, v) ==
    [l \in DOMAIN vec \cup {labels} |-> IF l = labels THEN Value(vec, labels) + v ELSE vec[l]]

\* GaugeVec.WithLabelValues(labels).Set(v)
GaugeSet(vec, labels, v) ==
    [l \in DOMAIN vec \cup {labels} |-> IF l = labels THEN v ELSE vec[l]]

\* CounterVec.WithLabelValues(labels).Inc()
CounterInc(vec, labels) ==
    [l \in DOMAIN vec \cup {labels} |-> IF l = labels THEN Value(vec, labels) + 1 ELSE vec[l]]

EmptyVec == [l \in {} |-> 0]

Nickname == "nick"

L1HeaderByNumber == << "L1", "HeaderByNumber" >>
L1FilterLogs == << "L1", "FilterLogs" >>

\* ----------------------------------------------------- observed logs
LogAddresses == {1, 2}
\* an anonymous log, the event a(a) from either address, the event b()
ObservedLogs == {[Address |-> 1, Topics |-> << >>],
                 [Address |-> 1, Topics |-> << FormatAndHash(SigA) >>],
                 [Address |-> 2, Topics |-> << FormatAndHash(SigA) >>],
                 [Address |-> 1, Topics |-> << FormatAndHash(SigB) >>]}
BlockNumbers == {100}

\* ------------------------------------------- global-events monitor: Run
GEInit ==
    /\ pc = "Idle"
    /\ ticks = 0
    /\ ctxDone = FALSE
    /\ globalconfig \in RuleSets(MaxRules)
    /\ err = Nil
    /\ latestBlockNumber = 0
    /\ logs = << >>
    /\ idx = 1
    /\ lookups = 0
    /\ detected = << >>
    /\ eventEmitted = EmptyVec
    /\ unexpectedRpcErrors = EmptyVec

GEIdle ==
    /\ pc = "Idle" /\ ticks = 0 /\ ctxDone = FALSE /\ globalconfig = << >>
    /\ err = Nil /\ latestBlockNumber = 0 /\ logs = << >> /\ idx = 1
    /\ lookups = 0 /\ detected = << >>
    /\ eventEmitted = EmptyVec /\ unexpectedRpcErrors = EmptyVec

RunResetsGauge ==
    /\ pc = "Idle"
    /\ ~ctxDone
    /\ ticks < MaxTicks
    /\ ticks' = ticks + 1
    /\ pc' = "FetchingHeader"
    /\ err' = Nil
    /\ latestBlockNumber' = 0
    /\ logs' = << >>
    /\ idx' = 1
    /\ lookups' = 0
    /\ detected' = << >>
    /\ eventEmitted' = EmptyVec
    /\ UNCHANGED <<ctxDone, globalconfig, unexpectedRpcErrors>>

\* Run(ctx) -> checkEvents(ctx): HeaderByNumber(context.Background(), nil) is issued
Run ==
    /\ pc = "Idle"
    /\ ~ctxDone
    /\ ticks < MaxTicks
    /\ ticks' = ticks + 1
    /\ pc' = "FetchingHeader"
    /\ err' = Nil
    /\ latestBlockNumber' = 0
    /\ logs' = << >>
    /\ idx' = 1
    /\ lookups' = 0
    /\ detected' = << >>
    /\ UNCHANGED <<ctxDone, globalconfig, eventEmitted, unexpectedRpcErrors>>

\* the caller cancels the ctx it handed to Run
CancelContext ==
    /\ ~ctxDone
    /\ ctxDone' = TRUE
    /\ UNCHANGED <<pc, ticks, globalconfig, err, latestBlockNumber, logs, idx,
                   lookups, detected, eventEmitted, unexpectedRpcErrors>>

HeaderByNumberReturnsNoReturn ==
    /\ pc = "FetchingHeader"
    /\ \E e \in {Nil, RpcError}, n \in BlockNumbers :
        /\ err' = e
        /\ IF e # Nil
           THEN /\ unexpectedRpcErrors' = CounterInc(unexpectedRpcErrors, << "L1", "HeaderByNumber" >>)
                /\ latestBlockNumber' = 0
           ELSE /\ latestBlockNumber' = n
                /\ UNCHANGED unexpectedRpcErrors
        /\ pc' = "FetchingLogs"
    /\ UNCHANGED <<ticks, ctxDone, globalconfig, logs, idx, lookups, detected, eventEmitted>>

\* HeaderByNumber returns; the call was made with context.Background(), so
\* its outcome does not depend on ctxDone
HeaderByNumberReturns ==
    /\ pc = "FetchingHeader"
    /\ \E e \in {Nil, RpcError}, n \in BlockNumbers :
        /\ err' = e
        /\ IF e # Nil
           THEN /\ unexpectedRpcErrors' = CounterInc(unexpectedRpcErrors, L1HeaderByNumber)
                /\ pc' = "Idle"
                /\ UNCHANGED latestBlockNumber
           ELSE /\ latestBlockNumber' = n
                /\ pc' = "FetchingLogs"
                /\ UNCHANGED unexpectedRpcErrors
    /\ UNCHANGED <<ticks, ctxDone, globalconfig, logs, idx, lookups, detected, eventEmitted>>

FilterLogsReturnsNoReturn ==
    /\ pc = "FetchingLogs"
    /\ \E e \in {Nil, RpcError}, ls \in SeqsUpTo(ObservedLogs, MaxLogs) :
        /\ err' = e
        /\ IF e # Nil
           THEN /\ unexpectedRpcErrors' = CounterInc(unexpectedRpcErrors, << "L1", "FilterLogs" >>)
                /\ logs' = << >>
           ELSE /\ logs' = ls
                /\ UNCHANGED unexpectedRpcErrors
        /\ pc' = "Matching"
    /\ UNCHANGED <<ticks, ctxDone, globalconfig, latestBlockNumber, idx, lookups,
                   detected, eventEmitted>>

\* FilterLogs returns; made with context.Background() as well
FilterLogsReturns ==
    /\ pc = "FetchingLogs"
    /\ \E e \in {Nil, RpcError}, ls \in SeqsUpTo(ObservedLogs, MaxLogs) :
        /\ err' = e
        /\ IF e # Nil
           THEN /\ unexpectedRpcErrors' = CounterInc(unexpectedRpcErrors, L1FilterLogs)
                /\ pc' = "Idle"
                /\ UNCHANGED logs
           ELSE /\ logs' = ls
                /\ pc' = "Matching"
                /\ UNCHANGED unexpectedRpcErrors
    /\ UNCHANGED <<ticks, ctxDone, globalconfig, latestBlockNumber, idx, lookups,
                   detected, eventEmitted>>

\* the labels of the sample a hit sets
Labels(cfg, vLog) ==
    [nickname |-> Nickname, rulename |-> cfg.Name, priority |-> cfg.Priority,
     functionName |-> cfg.Events[1].Signature, address |-> AddressString(vLog.Address)]

\* the body of the range loop for one log: how many times the rule set is
\* searched, and the label tuples that are printed and set (at most one)
LoopBodyNoTopicCheck(G, vLog) ==
    LET topic0 == IF Len(vLog.Topics) > 0 THEN vLog.Topics[1] ELSE << "keccak256", << >> >>
    IN IF Len(SearchIfATopicIsInsideAnAlert(G, topic0).Events) > 0
       THEN LET cfg == SearchIfATopicIsInsideAnAlert(G, topic0)
            IN [lookups |-> 2,
                hits |-> IF isAddressIntoConfig(vLog.Address, cfg)
                         THEN << Labels(cfg, vLog) >> ELSE << >>]
       ELSE [lookups |-> 1, hits |-> << >>]

LoopBody(G, vLog) ==
    IF Len(vLog.Topics) > 0
    THEN IF Len(SearchIfATopicIsInsideAnAlert(G, vLog.Topics[1]).Events) > 0
         THEN LET cfg == SearchIfATopicIsInsideAnAlert(G, vLog.Topics[1])
              IN [lookups |-> 2,
                  hits |-> IF isAddressIntoConfig(vLog.Address, cfg)
                           THEN << Labels(cfg, vLog) >> ELSE << >>]
         ELSE [lookups |-> 1, hits |-> << >>]
    ELSE [lookups |-> 0, hits |-> << >>]

\* one iteration of the range loop over logs
ProcessLog ==
    /\ pc = "Matching"
    /\ idx <= Len(logs)
    /\ LET body == LoopBody(globalconfig, logs[idx])
       IN /\ lookups' = lookups + body.lookups
          /\ detected' = detected \o body.hits
          /\ eventEmitted' = IF Len(body.hits) > 0
                             THEN GaugeSet(eventEmitted, body.hits[1], 1)
                             ELSE eventEmitted
    /\ idx' = idx + 1
    /\ UNCHANGED <<pc, ticks, ctxDone, globalconfig, err, latestBlockNumber, logs,
                   unexpectedRpcErrors>>

\* the loop is over: log "Checking events.." and return; the batch of logs
\* and what was noted about it go out of scope with the tick
FinishTick ==
    /\ pc = "Matching"
    /\ idx > Len(logs)
    /\ pc' = "Idle"
    /\ logs' = << >>
    /\ idx' = 1
    /\ lookups' = 0
    /\ detected' = << >>
    /\ UNCHANGED <<ticks, ctxDone, globalconfig, err, latestBlockNumber,
                   eventEmitted, unexpectedRpcErrors>>

\* ------------------------------------------ liveness-expiration monitor
Owners == {1, 2}
Heights == {100}
LastLives == {7, 8}
Intervals == {9}

LEBlockNumber == << "l1", "blockNumber" >>
LEGetOwners == << "l1", "GetOwners" >>
LELastLive == << "l1", "LastLive" >>
LELivenessInterval == << "l1", "LivenessInterval" >>

\* a nil *big.Int; a binding that fails hands back nil or a zero *big.Int
NilBigInt == -1
OnError == {NilBigInt, 0}

LEInit ==
    /\ le_pc = "Idle"
    /\ le_ticks = 0
    /\ le_err = Nil
    /\ le_errored = FALSE
    /\ le_gaugesSet = {}
    /\ latestL1Height = 0
    /\ listOwners = << >>
    /\ ownerIdx = 1
    /\ le_unexpectedRpcErrors = EmptyVec
    /\ lastLiveOfAOwner = EmptyVec
    /\ intervalLiveness = EmptyVec
    /\ highestBlockNumber = EmptyVec

\* Run(ctx): BlockNumber(ctx) is issued
LERun ==
    /\ le_pc = "Idle"
    /\ le_ticks < MaxTicks
    /\ le_ticks' = le_ticks + 1
    /\ le_pc' = "BlockNumber"
    /\ le_err' = Nil
    /\ le_errored' = FALSE
    /\ le_gaugesSet' = {}
    /\ latestL1Height' = 0
    /\ listOwners' = << >>
    /\ ownerIdx' = 1
    /\ UNCHANGED <<le_unexpectedRpcErrors, lastLiveOfAOwner, intervalLiveness, highestBlockNumber>>

\* BlockNumber returns: an error is logged and counted, and Run goes on
BlockNumberReturns ==
    /\ le_pc = "BlockNumber"
    /\ \E e \in {Nil, RpcError}, h \in Heights :
        /\ le_err' = e
        /\ IF e # Nil
           THEN /\ le_unexpectedRpcErrors' = CounterInc(le_unexpectedRpcErrors, LEBlockNumber)
                /\ le_errored' = TRUE
                /\ latestL1Height' = 0
           ELSE /\ latestL1Height' = h
                /\ UNCHANGED <<le_unexpectedRpcErrors, le_errored>>
    /\ le_pc' = "GetOwners"
    /\ UNCHANGED <<le_ticks, le_gaugesSet, listOwners, ownerIdx, lastLiveOfAOwner,
                   intervalLiveness, highestBlockNumber>>

\* GetOwners returns: an error is logged and counted, and Run goes on with no owner
GetOwnersReturns ==
    /\ le_pc = "GetOwners"
    /\ \E e \in {Nil, RpcError}, os \in SeqsUpTo(Owners, MaxOwners) :
        /\ le_err' = e
        /\ IF e # Nil
           THEN /\ le_unexpectedRpcErrors' = CounterInc(le_unexpectedRpcErrors, LEGetOwners)
                /\ le_errored' = TRUE
                /\ listOwners' = << >>
           ELSE /\ listOwners' = os
                /\ UNCHANGED <<le_unexpectedRpcErrors, le_errored>>
        /\ le_pc' = IF Len(listOwners') > 0 THEN "LastLive" ELSE "LivenessInterval"
    /\ ownerIdx' = 1
    /\ UNCHANGED <<le_ticks, le_gaugesSet, latestL1Height, lastLiveOfAOwner,
                   intervalLiveness, highestBlockNumber>>

\* LastLive(owner) returns: an error is logged and counted, then
\* lastLive.Uint64() is evaluated on what came back and the gauge is set
LastLiveReturns ==
    /\ le_pc = "LastLive"
    /\ \E e \in {Nil, RpcError}, lastLive \in LastLives \cup OnError :
           /\ (e = Nil) = (lastLive \in LastLives)
           /\ le_err' = e
           /\ IF e # Nil
              THEN /\ le_unexpectedRpcErrors' = CounterInc(le_unexpectedRpcErrors, LELastLive)
                   /\ le_errored' = TRUE
              ELSE UNCHANGED <<le_unexpectedRpcErrors, le_errored>>
           /\ IF lastLive = NilBigInt
              THEN /\ le_pc' = "Panicked"
                   /\ UNCHANGED <<lastLiveOfAOwner, le_gaugesSet, ownerIdx>>
              ELSE /\ lastLiveOfAOwner' =
                        GaugeSet(lastLiveOfAOwner, AddressString(listOwners[ownerIdx]), lastLive)
                   /\ le_gaugesSet' = le_gaugesSet \cup {"lastLiveOfAOwner"}
                   /\ ownerIdx' = ownerIdx + 1
                   /\ le_pc' = IF ownerIdx + 1 > Len(listOwners)
                               THEN "LivenessInterval" ELSE "LastLive"
    /\ UNCHANGED <<le_ticks, latestL1Height, listOwners, intervalLiveness, highestBlockNumber>>

\* LivenessInterval returns: an error is logged and counted, then both
\* remaining gauges are set and Run returns
LivenessIntervalReturns ==
    /\ le_pc = "LivenessInterval"
    /\ \E e \in {Nil, RpcError}, interval \in Intervals \cup OnError :
           /\ (e = Nil) = (interval \in Intervals)
           /\ le_err' = e
           /\ IF e # Nil
              THEN /\ le_unexpectedRpcErrors' = CounterInc(le_unexpectedRpcErrors, LELivenessInterval)
                   /\ le_errored' = TRUE
              ELSE UNCHANGED <<le_unexpectedRpcErrors, le_errored>>
           /\ IF interval = NilBigInt
              THEN /\ le_pc' = "Panicked"
                   /\ UNCHANGED <<intervalLiveness, highestBlockNumber, le_gaugesSet>>
              ELSE /\ intervalLiveness' = GaugeSet(intervalLiveness, "interval", interval)
                   /\ highestBlockNumber' =
                        GaugeSet(highestBlockNumber, "blockNumber", latestL1Height)
                   /\ le_gaugesSet' = le_gaugesSet \cup {"intervalLiveness", "highestBlockNumber"}
                   /\ le_pc' = "Idle"
    /\ UNCHANGED <<le_ticks, latestL1Height, listOwners, ownerIdx, lastLiveOfAOwner>>

\* ------------------------------------------------ pure-function harnesses
FInit ==
    /\ signature \in SeqsUpTo(Chars, MaxSigLen)
    /\ formatted = << >>
    /\ reformatted = << >>
    /\ fpc = "call"

FIdle == signature = << >> /\ formatted = << >> /\ reformatted = << >> /\ fpc = "idle"

\* formatSignature(signature)
Format ==
    /\ fpc = "call"
    /\ formatted' = formatSignature(signature)
    /\ fpc' = "formatted"
    /\ UNCHANGED <<signature, reformatted>>

\* formatSignature applied to its own result
Reformat ==
    /\ fpc = "formatted"
    /\ reformatted' = formatSignature(formatted)
    /\ fpc' = "reformatted"
    /\ UNCHANGED <<signature, formatted>>

ConfigsWithAddresses ==
    {[EmptyConfiguration EXCEPT !.Addresses = as] : as \in SeqsUpTo(Addresses \cup {3}, MaxAddresses)}

AInit ==
    /\ address \in Addresses \cup {3}
    /\ config \in ConfigsWithAddresses
    /\ accepted = FALSE
    /\ apc = "call"

AIdle == address = 1 /\ config = EmptyConfiguration /\ accepted = FALSE /\ apc = "idle"

\* isAddressIntoConfig(address, config)
CheckAddress ==
    /\ apc = "call"
    /\ accepted' = isAddressIntoConfig(address, config)
    /\ apc' = "returned"
    /\ UNCHANGED <<address, config>>

\* -------------------------------------------------------- specifications
Init == GEInit /\ LEInit /\ FIdle /\ AIdle
Next ==
    \/ Run /\ UNCHANGED <<fvars, avars, levars>>
    \/ CancelContext /\ UNCHANGED <<fvars, avars, levars>>
    \/ HeaderByNumberReturns /\ UNCHANGED <<fvars, avars, levars>>
    \/ FilterLogsReturns /\ UNCHANGED <<fvars, avars, levars>>
    \/ ProcessLog /\ UNCHANGED <<fvars, avars, levars>>
    \/ FinishTick /\ UNCHANGED <<fvars, avars, levars>>
Spec == Init /\ [][Next]_vars

LivenessInit == GEIdle /\ LEInit /\ FIdle /\ AIdle
LivenessNext ==
    \/ LERun /\ UNCHANGED <<gevars, fvars, avars>>
    \/ BlockNumberReturns /\ UNCHANGED <<gevars, fvars, avars>>
    \/ GetOwnersReturns /\ UNCHANGED <<gevars, fvars, avars>>
    \/ LastLiveReturns /\ UNCHANGED <<gevars, fvars, avars>>
    \/ LivenessIntervalReturns /\ UNCHANGED <<gevars, fvars, avars>>
SpecLiveness == LivenessInit /\ [][LivenessNext]_vars

SignatureInit == GEIdle /\ LEInit /\ FInit /\ AIdle
SignatureNext ==
    \/ Format /\ UNCHANGED <<gevars, avars, levars>>
    \/ Reformat /\ UNCHANGED <<gevars, avars, levars>>
SpecSignature == SignatureInit /\ [][SignatureNext]_vars

AddressInit == GEIdle /\ LEInit /\ FIdle /\ AInit
AddressNext == CheckAddress /\ UNCHANGED <<gevars, fvars, levars>>
SpecAddress == AddressInit /\ [][AddressNext]_vars

\* ================================================================ claims
\* sum of all samples of a counter vector
RECURSIVE TotalOver(_, _)
TotalOver(vec, ls) ==
    IF ls = {} THEN 0
    ELSE LET l == CHOOSE x \in ls : TRUE IN vec[l] + TotalOver(vec, ls \ {l})
Total(vec) == TotalOver(vec, DOMAIN vec)

\* every sample but the one labelled l is the same in both vectors
SameExcept(old, new, l) ==
    \A x \in (DOMAIN old \cup DOMAIN new) \ {l} :
        x \in DOMAIN old /\ x \in DOMAIN new /\ old[x] = new[x]

\* C1: in a tick whose header fetch succeeded, a failing FilterLogs adds
\* exactly 1 to the counter {L1, FilterLogs}, changes no other counter sample,
\* sets no eventEmitted sample in the tick, and the tick is back at Idle.
C1_FilterLogsFailure ==
    [][(pc = "FetchingLogs" /\ err' # Nil) =>
        /\ Value(unexpectedRpcErrors', << "L1", "FilterLogs" >>)
             = Value(unexpectedRpcErrors, << "L1", "FilterLogs" >>) + 1
        /\ SameExcept(unexpectedRpcErrors, unexpectedRpcErrors', << "L1", "FilterLogs" >>)
        /\ eventEmitted' = eventEmitted
        /\ detected' = << >>
        /\ pc' = "Idle"]_vars

C1_Witness ==
    /\ pc = "Idle" /\ err = RpcError /\ latestBlockNumber \in BlockNumbers
    /\ Value(unexpectedRpcErrors, << "L1", "FilterLogs" >>) >= 1

\* rule cfg references topic, and accepts address a by the rule of section 4.4
References(cfg, topic) == \E e \in 1..Len(cfg.Events) : FormatAndHash(cfg.Events[e].Signature) = topic
InScope(cfg, a) == Len(cfg.Addresses) = 0 \/ \E k \in 1..Len(cfg.Addresses) : cfg.Addresses[k] = a

\* C2: a log whose first topic is referenced by two distinct rules that both
\* accept its address yields a match, and an eventEmitted sample, for each of
\* the two rule names.
C2_SharedTopicTwoResults ==
    \A n \in 1..Len(logs) : \A i, j \in 1..Len(globalconfig) :
        (/\ pc = "Matching" /\ n < idx
         /\ i # j
         /\ Len(logs[n].Topics) > 0
         /\ References(globalconfig[i], logs[n].Topics[1])
         /\ References(globalconfig[j], logs[n].Topics[1])
         /\ InScope(globalconfig[i], logs[n].Address)
         /\ InScope(globalconfig[j], logs[n].Address))
        => \A r \in {i, j} :
              /\ \E d \in 1..Len(detected) :
                    /\ detected[d].rulename = globalconfig[r].Name
                    /\ detected[d].address = AddressString(logs[n].Address)
              /\ \E l \in DOMAIN eventEmitted :
                    /\ l.rulename = globalconfig[r].Name
                    /\ l.address = AddressString(logs[n].Address)

\* C3: once the ctx of Run is cancelled while HeaderByNumber or FilterLogs is
\* in flight, the call fails and the tick leaves through the failure path: an
\* error counter goes up by one, no sample is set, the tick is back at Idle.
C3_CancelAbortsTick ==
    [][(ctxDone /\ pc \in {"FetchingHeader", "FetchingLogs"}) =>
        /\ err' # Nil
        /\ pc' = "Idle"
        /\ Total(unexpectedRpcErrors') = Total(unexpectedRpcErrors) + 1
        /\ detected' = << >>]_vars

\* C4: isAddressIntoConfig accepts exactly when the rule's address list is
\* empty or holds the log's address.
C4_AddressScoping ==
    apc = "returned" =>
        (accepted <=> (Len(config.Addresses) = 0
                       \/ \E k \in 1..Len(config.Addresses) : config.Addresses[k] = address))

C4_Witness ==
    /\ apc = "returned" /\ ~accepted
    /\ Len(config.Addresses) >= 2
    /\ \A k \in 1..Len(config.Addresses) : config.Addresses[k] # address

\* C5: the loop iteration of a log without topics searches no rule, sets no
\* eventEmitted sample and touches no error counter.
C5_AnonymousLogNeverMatches ==
    [][(pc = "Matching" /\ idx <= Len(logs) /\ idx' = idx + 1 /\ Len(logs[idx].Topics) = 0) =>
        /\ lookups' = lookups
        /\ detected' = detected
        /\ eventEmitted' = eventEmitted
        /\ unexpectedRpcErrors' = unexpectedRpcErrors]_vars

C5_Witness ==
    /\ pc = "Matching" /\ idx > 1 /\ Len(logs[idx - 1].Topics) = 0
    /\ Len(globalconfig) > 0

\* C6: a tick of the liveness-expiration monitor in which an RPC call failed
\* sets no gauge.
C6_AllOrNothing == le_errored => le_gaugesSet = {}

\* C7: every eventEmitted sample is keyed by (nickname, rule name, priority,
\* raw signature of the rule's first event, log address) and is exactly 1,
\* however many logs hit the same label tuple.
C7_PresenceIndicator ==
    \A l \in DOMAIN eventEmitted :
        /\ eventEmitted[l] = 1
        /\ l.nickname = Nickname
        /\ \E a \in LogAddresses : l.address = AddressString(a)
        /\ \E r \in 1..Len(globalconfig) :
              /\ l.rulename = globalconfig[r].Name
              /\ l.priority = globalconfig[r].Priority
              /\ l.functionName = globalconfig[r].Events[1].Signature

C7_Witness ==
    \E a, b \in 1..Len(detected) :
        /\ a < b
        /\ detected[a] = detected[b]
        /\ detected[a] \in DOMAIN eventEmitted
        /\ eventEmitted[detected[a]] = 1

\* the least and the greatest element of a non-empty set of integers
Least(S) == CHOOSE x \in S : \A y \in S : x <= y
Greatest(S) == CHOOSE x \in S : \A y \in S : y <= x

\* s is name(params): a non-empty run of word characters, "(", any
\* characters but ")", and a closing ")" that ends s
OpenAt(s) == Least({i \in 1..Len(s) : s[i] = "("} \cup {Len(s) + 1})
HasShape(s) ==
    /\ Len(s) >= 3
    /\ OpenAt(s) \in 2..(Len(s) - 1)
    /\ \A i \in 1..(OpenAt(s) - 1) : s[i] \in WordChars
    /\ s[Len(s)] = ")"
    /\ \A i \in (OpenAt(s) + 1)..(Len(s) - 1) : s[i] # ")"
NameOf(s) == SubSeq(s, 1, OpenAt(s) - 1)
ParamsOf(s) == SubSeq(s, OpenAt(s) + 1, Len(s) - 1)

\* the comma-separated fields of p, each named by the position of the
\* separator before it (0 for the first field)
FieldStarts(p) == {0} \cup {i \in 1..Len(p) : p[i] = ","}
FieldEnd(p, c) == Least({i \in (c + 1)..Len(p) : p[i] = ","} \cup {Len(p) + 1})
NonBlankAt(p, c) == {i \in (c + 1)..(FieldEnd(p, c) - 1) : p[i] \notin SpaceChars}
NonBlankFields(p) == {c \in FieldStarts(p) : NonBlankAt(p, c) # {}}
\* the first whitespace-separated token of the non-blank field c
FirstToken(p, c) ==
    LET from == Least(NonBlankAt(p, c))
        to == Greatest({j \in from..(FieldEnd(p, c) - 1) :
                          \A k \in from..j : p[k] \notin SpaceChars})
    IN SubSeq(p, from, to)
\* the n-th non-blank field, in the order of the text
NthField(p, n) ==
    CHOOSE c \in NonBlankFields(p) : Cardinality({d \in NonBlankFields(p) : d < c}) = n - 1
ExpectedTypes(p) ==
    [n \in 1..Cardinality(NonBlankFields(p)) |-> FirstToken(p, NthField(p, n))]

\* the types written one after the other, a single comma between neighbours
RECURSIVE CommaList(_, _)
CommaList(types, n) ==
    IF n = 0 THEN << >>
    ELSE IF n = 1 THEN types[1]
    ELSE CommaList(types, n - 1) \o << "," >> \o types[n]

Canonical(s) == NameOf(s) \o << "(" >>
                \o CommaList(ExpectedTypes(ParamsOf(s)), Len(ExpectedTypes(ParamsOf(s))))
                \o << ")" >>

\* s is already canonical: name(type1,...,typeN), N >= 0, types of word characters
IsCanonical(s) ==
    /\ HasShape(s)
    /\ \A i \in 1..Len(ParamsOf(s)) : ParamsOf(s)[i] \in WordChars \cup {","}
    /\ \A c \in FieldStarts(ParamsOf(s)) :
          Len(ParamsOf(s)) > 0 => NonBlankAt(ParamsOf(s), c) # {}

\* C8: formatSignature is idempotent wherever it returns a non-empty result,
\* and returns an already-canonical signature unchanged.
C8_Idempotent ==
    /\ (fpc = "reformatted" /\ formatted # << >>) => reformatted = formatted
    /\ (fpc # "call" /\ IsCanonical(signature)) => formatted = signature

C8_Witness ==
    /\ fpc = "reformatted"
    /\ formatted # << >>
    /\ formatted # signature
    /\ Len(ExpectedTypes(ParamsOf(formatted))) >= 1

\* C9: for name(params), formatSignature returns name and, in parentheses,
\* the first token of every non-blank comma-separated field, in order, joined
\* by single commas: no whitespace, no parameter name, no empty entry.
C9_TypesOnly ==
    (fpc # "call" /\ HasShape(signature)) =>
        /\ formatted = Canonical(signature)
        /\ \A i \in 1..Len(formatted) : formatted[i] \notin SpaceChars
        /\ LET body == ParamsOf(formatted)
           IN IF NonBlankFields(ParamsOf(signature)) = {}
              THEN body = << >>
              ELSE \A c \in FieldStarts(body) : FieldEnd(body, c) > c + 1

C9_Witness ==
    /\ fpc = "formatted"
    /\ HasShape(signature)
    /\ \E c \in FieldStarts(ParamsOf(signature)) : NonBlankAt(ParamsOf(signature), c) = {}
    /\ \E c \in NonBlankFields(ParamsOf(signature)) :
          FirstToken(ParamsOf(signature), c)
             # SubSeq(ParamsOf(signature), c + 1, FieldEnd(ParamsOf(signature), c) - 1)
    /\ Len(ExpectedTypes(ParamsOf(signature))) >= 1

\* C10: a tick moves Idle -> FetchingHeader -> FetchingLogs -> Matching
\* (matching and emitting, log by log) -> Idle; FilterLogs is issued only when
\* HeaderByNumber of the same tick succeeded; a failing HeaderByNumber adds
\* exactly 1 to {L1, HeaderByNumber}, issues no FilterLogs, sets no sample and
\* returns to Idle; a tick adds at most 1 to the error counters.
C10_TickOrder ==
    [][/\ pc' # pc =>
            << pc, pc' >> \in {<< "Idle", "FetchingHeader" >>,
                               << "FetchingHeader", "FetchingLogs" >>,
                               << "FetchingHeader", "Idle" >>,
                               << "FetchingLogs", "Matching" >>,
                               << "FetchingLogs", "Idle" >>,
                               << "Matching", "Idle" >>}
       /\ (pc' = "FetchingLogs" /\ pc # "FetchingLogs") => (pc = "FetchingHeader" /\ err' = Nil)
       /\ (pc = "FetchingHeader" /\ err' # Nil) =>
            /\ Value(unexpectedRpcErrors', << "L1", "HeaderByNumber" >>)
                 = Value(unexpectedRpcErrors, << "L1", "HeaderByNumber" >>) + 1
            /\ SameExcept(unexpectedRpcErrors, unexpectedRpcErrors', << "L1", "HeaderByNumber" >>)
            /\ eventEmitted' = eventEmitted
            /\ detected' = << >>
            /\ pc' = "Idle"
       /\ unexpectedRpcErrors' # unexpectedRpcErrors =>
            /\ Total(unexpectedRpcErrors') = Total(unexpectedRpcErrors) + 1
            /\ pc # "Idle" /\ pc' = "Idle"
       /\ eventEmitted' # eventEmitted => (pc = "Matching" /\ pc' = "Matching")
      ]_vars

C10_Witness ==
    /\ pc = "Idle" /\ err = RpcError /\ latestBlockNumber = 0
    /\ Value(unexpectedRpcErrors, << "L1", "HeaderByNumber" >>) >= 1
    /\ ticks >= 2
    /\ eventEmitted # EmptyVec

\* the label tuples whose eventEmitted sample is 1
SamplesAtOne(vec) == {l \in DOMAIN vec : vec[l] = 1}

\* C11: an eventEmitted sample is sticky: no step of any tick (starting,
\* failing, matching nothing, matching something else) removes a sample that
\* is 1 or gives it another value, so the set of samples at 1 only grows.
C11_StickySamples ==
    [][/\ SamplesAtOne(eventEmitted) \subseteq SamplesAtOne(eventEmitted')
       /\ \A l \in DOMAIN eventEmitted :
             l \in DOMAIN eventEmitted' /\ eventEmitted'[l] = eventEmitted[l]]_vars

\* a later tick fetched logs, went through all of them and hit nothing,
\* and a sample of an earlier tick is still 1
C11_Witness ==
    /\ ticks >= 2
    /\ pc = "Matching" /\ Len(logs) > 0 /\ idx > Len(logs)
    /\ detected = << >>
    /\ SamplesAtOne(eventEmitted) # {}

====
